---- MODULE Spec2Model ----
(***************************************************************************)
(* Model of the editing core of duzzy-editor:                              *)
(*   - Buffer (duzzy-editor/src/buffer.rs): rope text, cursor, viewport    *)
(*   - Command (src/command.rs): key dispatch and Normal/Insert commands   *)
(*   - Transaction (duzzy-editor/src/transaction.rs): edit log             *)
(*                                                                         *)
(* A text is a sequence of one-character strings; every character of the   *)
(* model is one byte wide, so char and byte indices coincide.  Positions   *)
(* are 0-based as in the source; TLA+ sequences are 1-based.               *)
(* Option<T> is a sequence of length 0 (None) or 1 (Some).                 *)
(***************************************************************************)
EXTENDS Integers, Sequences, FiniteSets, TLC

VARIABLES
    buffer,        \* Buffer { text, index, offset, vscroll, mode }
    current_node,  \* Command.current_node : Option<&KeymapNode>
    should_exit,   \* Command.should_exit
    aborted,       \* the process panicked (todo!())
    dispatch,      \* the most recent Command::execute call: key, idle before, command run
    op,            \* the most recent Buffer / Transaction operation and its arguments
    rope,          \* the rope a Transaction is built against
    changes,       \* Transaction.changes
    direct,        \* the rope edited directly at the moment of every call
    wf,            \* every call so far continued the previous one contiguously
    run,           \* the current run of consecutive delete_char calls
    phase,         \* "build", "applied", "undone" or "panicked"
    text,          \* the rope that apply() mutates
    app            \* App::new: its arguments, its position and the editor's documents

vars == <<buffer, current_node, should_exit, aborted, dispatch, op,
          rope, changes, direct, wf, run, phase, text, app>>

-----------------------------------------------------------------------------
(* Bounds *)

MaxLen == 3        \* longest buffer text
MaxStep == 2       \* largest N of a motion by N
MaxHeight == 3     \* largest viewport height
MaxScroll == 3     \* largest initial scroll-top

MaxRope == 2       \* longest rope a Transaction is built against
MaxPos == 2        \* largest position argument of a Transaction call
MaxStr == 2        \* longest slice of insert_str / delete_str
MaxActions == 2    \* most actions of a Transaction
MaxContent == 2    \* longest content of one action
MaxArgs == 3       \* most path arguments of App::new

NL == "\n"
Alphabet == {"a", NL}

-----------------------------------------------------------------------------
(* Generic helpers *)

Min(a, b) == IF a < b THEN a ELSE b
Max(a, b) == IF a > b THEN a ELSE b

saturating_sub(a, b) == IF a >= b THEN a - b ELSE 0

Last(s) == s[Len(s)]

Reverse(s) == [i \in 1..Len(s) |-> s[Len(s) + 1 - i]]

SeqsUpTo(S, n) == UNION {[1..k -> S] : k \in 0..n}

None == <<>>
Some(x) == <<x>>

-----------------------------------------------------------------------------
(* ropey::Rope, as the buffer uses it *)

\* Rope::insert(char_idx, text)
rope_insert(t, pos, s) == SubSeq(t, 1, pos) \o s \o SubSeq(t, pos + 1, Len(t))

\* Rope::remove(start..end)
rope_remove(t, start, end) == SubSeq(t, 1, start) \o SubSeq(t, end + 1, Len(t))

\* Rope::len_lines: one more than the number of line breaks
len_lines(t) == 1 + Cardinality({i \in 1..Len(t) : t[i] = NL})

\* Rope::byte_to_line: the number of line breaks before pos
byte_to_line(t, pos) == Cardinality({i \in 1..Min(pos, Len(t)) : t[i] = NL})

\* Rope::line_to_byte: the start of line i (the text's length for i = len_lines)
line_to_byte(t, i) ==
    IF i = 0 THEN 0
    ELSE IF i >= len_lines(t) THEN Len(t)
    ELSE CHOOSE p \in 1..Len(t) : t[p] = NL /\ byte_to_line(t, p) = i

\* Rope::line(i).len_bytes(): the length of line i with its terminator
len_bytes(t, i) == line_to_byte(t, i + 1) - line_to_byte(t, i)

-----------------------------------------------------------------------------
(* Buffer (duzzy-editor/src/buffer.rs) *)

Modes == {"Normal", "Insert", "Visual"}

\* Buffer::default()
NewBuffer(t) == [text |-> t, index |-> 0, offset |-> 0, vscroll |-> 0, mode |-> "Normal"]

\* Buffer::as_byte_pos (cursor_position in the dispatcher)
as_byte_pos(b) == b.offset + line_to_byte(b.text, b.index)

\* as_curs_pos taking the line of the following position
as_curs_pos_next(b, pos) ==
    LET index == byte_to_line(b.text, pos + 1)
        start == line_to_byte(b.text, index)
        offset == pos - start
    IN <<index, offset>>

\* Buffer::as_curs_pos
as_curs_pos(b, pos) ==
    LET index == byte_to_line(b.text, pos)
        start == line_to_byte(b.text, index)
        offset == pos - start
    IN <<index, offset>>

\* Buffer::set_pos
set_pos(b, pos) == [b EXCEPT !.index = pos[1], !.offset = pos[2]]

\* update_vscroll without the + 1 when the cursor is below the window
update_vscroll_short(b, max) ==
    LET upper_bound == b.vscroll + max - 1
    IN IF b.index < b.vscroll THEN [b EXCEPT !.vscroll = b.index]
       ELSE IF b.index > upper_bound THEN [b EXCEPT !.vscroll = b.index - max]
       ELSE b

\* update_vscroll putting a cursor below the window on the window's first line
update_vscroll_top(b, max) ==
    LET upper_bound == b.vscroll + max - 1
    IN IF b.index < b.vscroll THEN [b EXCEPT !.vscroll = b.index]
       ELSE IF b.index > upper_bound THEN [b EXCEPT !.vscroll = b.index]
       ELSE b

\* Buffer::update_vscroll
update_vscroll(b, max) ==
    LET upper_bound == b.vscroll + max - 1
    IN IF b.index < b.vscroll THEN [b EXCEPT !.vscroll = b.index]
       ELSE IF b.index > upper_bound THEN [b EXCEPT !.vscroll = b.index - max + 1]
       ELSE b

-----------------------------------------------------------------------------
(* Command: the cursor and edit primitives (src/command.rs) *)

\* cursor_line_bounds counting the terminator of every line
cursor_line_bounds_full(b) ==
    LET line_bytes_len == len_bytes(b.text, b.index)
    IN IF b.offset > line_bytes_len THEN [b EXCEPT !.offset = line_bytes_len] ELSE b

\* Command::cursor_line_bounds
cursor_line_bounds(b) ==
    LET full == len_bytes(b.text, b.index)
        line_bytes_len == IF b.index < len_lines(b.text) - 1 THEN full - 1 ELSE full
    IN IF b.offset > line_bytes_len THEN [b EXCEPT !.offset = line_bytes_len] ELSE b

\* scroll moving the window one line further than the cursor needs
scroll_over(b, max) ==
    LET lower_bound == b.vscroll
        upper_bound == lower_bound + max - 1
        line_index == b.index
    IN IF line_index >= upper_bound
       THEN [b EXCEPT !.vscroll = lower_bound + line_index - upper_bound + 1]
       ELSE IF line_index < lower_bound THEN [b EXCEPT !.vscroll = line_index]
       ELSE b

\* Command::scroll
scroll(b, max) ==
    LET lower_bound == b.vscroll
        upper_bound == lower_bound + max - 1
        line_index == b.index
    IN IF line_index >= upper_bound
       THEN [b EXCEPT !.vscroll = lower_bound + line_index - upper_bound]
       ELSE IF line_index < lower_bound THEN [b EXCEPT !.vscroll = line_index]
       ELSE b

\* insert_char leaving the cursor before the inserted character
insert_char_stay(b, ch) ==
    LET pos == as_byte_pos(b)
    IN [b EXCEPT !.text = rope_insert(b.text, pos, <<ch>>)]

\* Command::insert_char
insert_char(b, ch) ==
    LET pos == as_byte_pos(b)
    IN [b EXCEPT !.text = rope_insert(b.text, pos, <<ch>>), !.offset = b.offset + 1]

\* Command::move_cursor_forward_by
move_cursor_forward_by(b, offset) ==
    cursor_line_bounds([b EXCEPT !.offset = b.offset + offset])

\* Command::move_cursor_back_by
move_cursor_back_by(b, offset) ==
    [b EXCEPT !.offset = saturating_sub(b.offset, offset)]

\* Command::move_cursor_up_by
move_cursor_up_by(b, offset) ==
    cursor_line_bounds([b EXCEPT !.index = saturating_sub(b.index, offset)])

\* Command::move_cursor_down_by
move_cursor_down_by(b, offset) ==
    LET new_offset == b.index + offset
    IN cursor_line_bounds(IF new_offset < len_lines(b.text)
                          THEN [b EXCEPT !.index = new_offset]
                          ELSE b)

\* Command::new_line
new_line(b) ==
    LET b1 == insert_char(b, NL)
    IN [b1 EXCEPT !.offset = 0, !.index = b1.index + 1]

\* delete_char removing to the left without moving up from offset 0
delete_char_flat(b) ==
    LET pos == as_byte_pos(b)
        b2 == [b EXCEPT !.text = rope_remove(b.text, pos - 1, pos)]
    IN IF pos # 0 THEN move_cursor_back_by(b2, 1) ELSE b

\* Command::delete_char
delete_char(b) ==
    LET pos == as_byte_pos(b)
        up == move_cursor_up_by(b, 1)
        b1 == IF b.offset = 0
              THEN [up EXCEPT !.offset = len_bytes(up.text, up.index)]
              ELSE b
        b2 == [b1 EXCEPT !.text = rope_remove(b1.text, pos - 1, pos)]
    IN IF pos # 0 THEN move_cursor_back_by(b2, 1) ELSE b

\* Command::move_cursor_to_line_end
move_cursor_to_line_end(b) ==
    cursor_line_bounds([b EXCEPT !.offset = len_bytes(b.text, b.index)])

\* Command::to_insert_move_end
to_insert_move_end(b) == [move_cursor_to_line_end(b) EXCEPT !.mode = "Insert"]

\* Command::to_insert_move_start
to_insert_move_start(b) == [b EXCEPT !.offset = 0, !.mode = "Insert"]

\* Command::to_insert_new_line_next
to_insert_new_line_next(b) ==
    [new_line(move_cursor_to_line_end(b)) EXCEPT !.mode = "Insert"]

\* to_insert_new_line_prev without the branch for the first line
to_insert_new_line_prev_up(b) ==
    [to_insert_new_line_next(move_cursor_up_by(b, 1)) EXCEPT !.mode = "Insert"]

\* Command::to_insert_new_line_prev
to_insert_new_line_prev(b) ==
    LET r == IF b.index = 0
             THEN move_cursor_up_by(new_line([b EXCEPT !.offset = 0]), 1)
             ELSE to_insert_new_line_next(move_cursor_up_by(b, 1))
    IN [r EXCEPT !.mode = "Insert"]

\* the addressable length of line i: without the terminator unless i is the last line
Addressable(t, i) ==
    IF i < len_lines(t) - 1 THEN len_bytes(t, i) - 1 ELSE len_bytes(t, i)

\* the cursor invariant of the Buffer
CursorValid(b) ==
    /\ b.index < len_lines(b.text)
    /\ b.offset <= Addressable(b.text, b.index)

-----------------------------------------------------------------------------
(* Keymap trie and input events *)

Leaf(cmd) == [type |-> "Leaf", cmd |-> cmd]
Node(next) == [type |-> "Node", next |-> next]

CommandTypes ==
    {"SwitchToInsertMode", "SwitchToNormalMode", "MoveBack", "MoveDown", "MoveUp",
     "MoveForward", "SwitchToInsertLineEnd", "SwitchToInsertLineStart",
     "SwitchToInsertNewLineNext", "SwitchToInsertNewLinePrev", "GoToStartLine",
     "GoToEndLine", "DeleteChar", "NewLine"}

\* a function given as a set of <<key, value>> pairs
MapOf(pairs) == [k \in {p[1] : p \in pairs} |-> (CHOOSE p \in pairs : p[1] = k)[2]]

\* the Normal-mode trie: single keys, two-key sequences and one three-key sequence
Keymap ==
    MapOf({ <<"i", Leaf("SwitchToInsertMode")>>,
            <<"Esc", Leaf("SwitchToNormalMode")>>,
            <<"h", Leaf("MoveBack")>>,
            <<"j", Leaf("MoveDown")>>,
            <<"k", Leaf("MoveUp")>>,
            <<"l", Leaf("MoveForward")>>,
            <<"A", Leaf("SwitchToInsertLineEnd")>>,
            <<"I", Leaf("SwitchToInsertLineStart")>>,
            <<"o", Leaf("SwitchToInsertNewLineNext")>>,
            <<"O", Leaf("SwitchToInsertNewLinePrev")>>,
            <<"Enter", Leaf("NewLine")>>,
            <<"d", Node(MapOf({ <<"d", Leaf("DeleteChar")>> }))>>,
            <<"g", Node(MapOf({ <<"g", Leaf("GoToStartLine")>>,
                                <<"e", Leaf("GoToEndLine")>> }))>>,
            <<"z", Node(MapOf({ <<"z", Node(MapOf({ <<"t", Leaf("MoveBack")>> }))>> }))>> })

\* Event::Char(ch) is the one-character string ch; the other events are named keys
Chars == {"a", "q", "i", "h", "j", "k", "l", "A", "I", "o", "O", "d", "g", "e", "z", "t"}
Named == {"Esc", "Enter"}
Events == Chars \cup Named

\* Input { event, ctrl, alt }
Inputs == [event : Events, ctrl : BOOLEAN, alt : BOOLEAN]

\* the characters typed in Insert mode
TypedChars == {"a", "q"}

\* the inputs handed over while the mode is Insert
InsertInputs == {input \in Inputs : input.event \in TypedChars \cup Named}

\* Keymap::get
keymap_get(map, event) == IF event \in DOMAIN map THEN Some(map[event]) ELSE None

-----------------------------------------------------------------------------
(* Command::execute *)

\* the Leaf arm of Command::execute: the command's effect on the buffer
run_command(b, cmd) ==
    CASE cmd = "SwitchToInsertMode" -> [b EXCEPT !.mode = "Insert"]
      [] cmd = "SwitchToNormalMode" -> [b EXCEPT !.mode = "Normal"]
      [] cmd = "MoveBack" -> move_cursor_back_by(b, 1)
      [] cmd = "MoveDown" -> move_cursor_down_by(b, 1)
      [] cmd = "MoveUp" -> move_cursor_up_by(b, 1)
      [] cmd = "MoveForward" -> move_cursor_forward_by(b, 1)
      [] cmd = "SwitchToInsertLineEnd" -> to_insert_move_end(b)
      [] cmd = "SwitchToInsertLineStart" -> to_insert_move_start(b)
      [] cmd = "SwitchToInsertNewLineNext" -> to_insert_new_line_next(b)
      [] cmd = "SwitchToInsertNewLinePrev" -> to_insert_new_line_prev(b)
      [] cmd = "DeleteChar" -> delete_char(b)
      [] cmd = "NewLine" -> new_line(b)
      [] OTHER -> b

\* the commands whose arm is todo!()
Unimplemented == {"GoToStartLine", "GoToEndLine"}

\* Command::execute: the node it matches on
execute_node(cur, event) == IF cur # None THEN cur ELSE keymap_get(Keymap, event)

\* Command::execute: the command it runs, "None" when it runs none
execute_cmd(cur, event) ==
    LET keymap_node == execute_node(cur, event)
    IN IF keymap_node # None /\ keymap_node[1].type = "Leaf" THEN keymap_node[1].cmd ELSE "None"

\* Command::execute: current_node after the call
execute_next(cur, event) ==
    LET keymap_node == execute_node(cur, event)
    IN IF keymap_node # None /\ keymap_node[1].type = "Node"
       THEN keymap_get(keymap_node[1].next, event)
       ELSE cur

\* the variables of the Transaction and Buffer-level specifications
txVars == <<rope, changes, direct, wf, run, phase, text>>

Execute(input) ==
    LET cmd == execute_cmd(current_node, input.event)
        nb == IF cmd = "None" THEN buffer ELSE run_command(buffer, cmd)
    IN /\ ~aborted
       /\ Len(nb.text) <= MaxLen
       /\ buffer' = nb
       /\ aborted' = (cmd \in Unimplemented)
       /\ current_node' = execute_next(current_node, input.event)
       /\ dispatch' = [key |-> input.event, idle |-> (current_node = None), cmd |-> cmd]
       /\ UNCHANGED <<should_exit, op, txVars, app>>

\* Command::insert_mode_on_input; the editor hands it the input while the mode is Insert
InsertModeOnInput(input) ==
    /\ ~aborted
    /\ buffer.mode = "Insert"
    /\ IF input.event \in Chars /\ ~input.ctrl /\ ~input.alt
       THEN /\ Len(buffer.text) < MaxLen
            /\ buffer' = insert_char(buffer, input.event)
            /\ UNCHANGED should_exit
       ELSE IF input.event = "q" /\ input.ctrl /\ ~input.alt
       THEN /\ should_exit' = TRUE
            /\ UNCHANGED buffer
       ELSE UNCHANGED <<buffer, should_exit>>
    /\ UNCHANGED <<current_node, aborted, dispatch, op, txVars, app>>

NoDispatch == [key |-> "None", idle |-> TRUE, cmd |-> "None"]
NoOp == [name |-> "None"]

\* no App is being constructed
AppIdle == [pc |-> "none"]

TxIdle ==
    /\ app = AppIdle
    /\ rope = <<>> /\ changes = <<>> /\ direct = <<>> /\ wf = TRUE
    /\ run = [k |-> 0] /\ phase = "build" /\ text = <<>>

Texts == SeqsUpTo(Alphabet, MaxLen)

\* the editor after construction: a document just opened, cursor at its start
Init ==
    /\ buffer \in {NewBuffer(t) : t \in Texts}
    /\ current_node = None
    /\ should_exit = FALSE
    /\ aborted = FALSE
    /\ dispatch = NoDispatch
    /\ op = NoOp
    /\ TxIdle

Next ==
    \/ \E input \in Inputs : Execute(input)
    \/ \E input \in InsertInputs : InsertModeOnInput(input)

Spec == Init /\ [][Next]_vars

-----------------------------------------------------------------------------
(* The Buffer's own operations, applied to every buffer state *)

EditorIdle ==
    /\ current_node = None /\ should_exit = FALSE /\ aborted = FALSE
    /\ dispatch = NoDispatch

\* every text, every valid cursor and every scroll-top
BufferStates ==
    {b \in [text : Texts, index : 0..MaxLen, offset : 0..MaxLen,
            vscroll : 0..MaxScroll, mode : {"Normal"}] : CursorValid(b)}

InitBuf ==
    /\ buffer \in BufferStates
    /\ op = NoOp
    /\ EditorIdle
    /\ TxIdle

MoveUpBy(n) ==
    /\ buffer' = move_cursor_up_by(buffer, n)
    /\ op' = [name |-> "move_cursor_up_by", n |-> n]
    /\ UNCHANGED <<current_node, should_exit, aborted, dispatch, txVars, app>>

MoveDownBy(n) ==
    /\ buffer' = move_cursor_down_by(buffer, n)
    /\ op' = [name |-> "move_cursor_down_by", n |-> n]
    /\ UNCHANGED <<current_node, should_exit, aborted, dispatch, txVars, app>>

UpdateVscroll(max) ==
    /\ buffer' = update_vscroll(buffer, max)
    /\ op' = [name |-> "update_vscroll", max |-> max, from |-> buffer.vscroll]
    /\ UNCHANGED <<current_node, should_exit, aborted, dispatch, txVars, app>>

\* the cursor is placed on an absolute position: set_pos(as_curs_pos(pos))
SetPos(pos) ==
    /\ buffer' = set_pos(buffer, as_curs_pos(buffer, pos))
    /\ op' = [name |-> "as_curs_pos", pos |-> pos]
    /\ UNCHANGED <<current_node, should_exit, aborted, dispatch, txVars, app>>

\* the dispatcher's viewport refresh
Scroll(max) ==
    /\ buffer' = scroll(buffer, max)
    /\ op' = [name |-> "scroll", max |-> max, from |-> buffer.vscroll]
    /\ UNCHANGED <<current_node, should_exit, aborted, dispatch, txVars, app>>

\* CommandType::SwitchToInsertNewLineNext
ToInsertNewLineNext ==
    /\ Len(buffer.text) < MaxLen
    /\ buffer' = to_insert_new_line_next(buffer)
    /\ op' = [name |-> "to_insert_new_line_next", index |-> buffer.index]
    /\ UNCHANGED <<current_node, should_exit, aborted, dispatch, txVars, app>>

\* CommandType::SwitchToInsertNewLinePrev
ToInsertNewLinePrev ==
    /\ Len(buffer.text) < MaxLen
    /\ buffer' = to_insert_new_line_prev(buffer)
    /\ op' = [name |-> "to_insert_new_line_prev", index |-> buffer.index]
    /\ UNCHANGED <<current_node, should_exit, aborted, dispatch, txVars, app>>

\* CommandType::DeleteChar
DeleteCharCmd ==
    /\ buffer' = delete_char(buffer)
    /\ op' = [name |-> "delete_char", index |-> buffer.index, offset |-> buffer.offset]
    /\ UNCHANGED <<current_node, should_exit, aborted, dispatch, txVars, app>>

NextBuf ==
    \/ \E n \in 1..MaxStep : MoveUpBy(n)
    \/ \E n \in 1..MaxStep : MoveDownBy(n)
    \/ \E max \in 1..MaxHeight : UpdateVscroll(max)
    \/ \E pos \in 0..Len(buffer.text) : SetPos(pos)
    \/ \E max \in 1..MaxHeight : Scroll(max)
    \/ ToInsertNewLineNext
    \/ ToInsertNewLinePrev
    \/ DeleteCharCmd

SpecBuf == InitBuf /\ [][NextBuf]_vars

-----------------------------------------------------------------------------
(* Transaction (duzzy-editor/src/transaction.rs) *)

\* Change { content, pos } inside Action::Insert / Action::Delete; Action::Move(pos)
InsertAction(change) == [kind |-> "Insert", content |-> change.content, pos |-> change.pos]
DeleteAction(change) == [kind |-> "Delete", content |-> change.content, pos |-> change.pos]
MoveAction(pos) == [kind |-> "Move", pos |-> pos]

\* Action::as_insert_mut on changes.last_mut()
last_as_insert(chs) ==
    IF chs # <<>> /\ Last(chs).kind = "Insert"
    THEN Some([content |-> Last(chs).content, pos |-> Last(chs).pos]) ELSE None

\* Action::as_delete_mut on changes.last_mut()
last_as_delete(chs) ==
    IF chs # <<>> /\ Last(chs).kind = "Delete"
    THEN Some([content |-> Last(chs).content, pos |-> Last(chs).pos]) ELSE None

\* Action::inverse re-inserting the stored content as it is
action_inverse_stored(a) ==
    CASE a.kind = "Insert" -> DeleteAction([content |-> a.content, pos |-> a.pos])
      [] a.kind = "Delete" -> InsertAction([content |-> a.content, pos |-> a.pos])
      [] OTHER -> MoveAction(a.pos)

\* Action::inverse
action_inverse(a) ==
    CASE a.kind = "Insert" -> DeleteAction([content |-> a.content, pos |-> a.pos])
      [] a.kind = "Delete" -> InsertAction([content |-> Reverse(a.content), pos |-> a.pos])
      [] OTHER -> MoveAction(a.pos)

\* Transaction::new
new == <<>>

\* Transaction::inverse
inverse(chs) == [i \in 1..Len(chs) |-> action_inverse(chs[Len(chs) + 1 - i])]

\* Transaction::apply; ok is FALSE when the rope panics on an out-of-range index
RECURSIVE apply_from(_, _, _, _)
apply_from(chs, i, t, last_pos) ==
    IF i > Len(chs) THEN [text |-> t, last_pos |-> last_pos, ok |-> TRUE]
    ELSE LET c == chs[i]
         IN CASE c.kind = "Insert" ->
                   IF c.pos > Len(t) THEN [text |-> t, last_pos |-> last_pos, ok |-> FALSE]
                   ELSE apply_from(chs, i + 1, rope_insert(t, c.pos, c.content),
                                   Some(c.pos + Len(c.content)))
              [] c.kind = "Delete" ->
                   IF c.pos + Len(c.content) > Len(t)
                   THEN [text |-> t, last_pos |-> last_pos, ok |-> FALSE]
                   ELSE apply_from(chs, i + 1, rope_remove(t, c.pos, c.pos + Len(c.content)),
                                   Some(c.pos))
              [] OTHER -> apply_from(chs, i + 1, t, Some(c.pos))

apply(chs, t) == apply_from(chs, 1, t, None)

\* shift pushing a new Move whatever the last action is
shift_push(chs, pos) == Append(chs, MoveAction(pos))

\* Transaction::shift
shift(chs, pos) ==
    IF chs # <<>> /\ Last(chs).kind = "Move"
    THEN [chs EXCEPT ![Len(chs)] = MoveAction(pos)]
    ELSE Append(chs, MoveAction(pos))

\* merge_or_new moving the extended Change to the new pos
merge_or_new_repos(maybe_change, pos, s) ==
    IF maybe_change # None
    THEN [change |-> Some([content |-> maybe_change[1].content \o s, pos |-> pos]), ret |-> None]
    ELSE [change |-> None, ret |-> Some([content |-> s, pos |-> pos])]

\* merge_or_new putting the new text in front of the content
merge_or_new_front(maybe_change, pos, s) ==
    IF maybe_change # None
    THEN [change |-> Some([maybe_change[1] EXCEPT !.content = s \o @]), ret |-> None]
    ELSE [change |-> None, ret |-> Some([content |-> s, pos |-> pos])]

\* Transaction::merge_or_new; func pushes s onto the content.
\* change is the borrowed Change after the call, ret the returned Option<Change>
merge_or_new(maybe_change, pos, s) ==
    IF maybe_change # None
    THEN [change |-> Some([maybe_change[1] EXCEPT !.content = @ \o s]), ret |-> None]
    ELSE [change |-> None, ret |-> Some([content |-> s, pos |-> pos])]

\* Transaction::insert_impl
insert_impl(chs, pos, s) ==
    LET maybe_change == last_as_insert(chs)
        r == merge_or_new(maybe_change, pos, s)
    IN IF r.ret # None
       THEN Append(chs, InsertAction(r.ret[1]))
       ELSE [chs EXCEPT ![Len(chs)] = InsertAction(r.change[1])]

\* Transaction::insert_char
tx_insert_char(chs, pos, ch) == insert_impl(chs, pos, <<ch>>)

\* Transaction::insert_str
insert_str(chs, pos, slice) == insert_impl(chs, pos, slice)

\* delete_impl leaving the pos of the extended Delete where it was
delete_impl_anchored(chs, pos, s) ==
    LET maybe_change == last_as_delete(chs)
        r == merge_or_new(maybe_change, pos, s)
    IN IF r.ret # None
       THEN Append(chs, DeleteAction(r.ret[1]))
       ELSE [chs EXCEPT ![Len(chs)] = DeleteAction(r.change[1])]

\* Transaction::delete_impl
delete_impl(chs, pos, s) ==
    LET maybe_change == last_as_delete(chs)
        repointed == IF maybe_change # None
                     THEN Some([maybe_change[1] EXCEPT !.pos = pos])
                     ELSE None
        r == merge_or_new(repointed, pos, s)
    IN IF r.ret # None
       THEN Append(chs, DeleteAction(r.ret[1]))
       ELSE [chs EXCEPT ![Len(chs)] = DeleteAction(r.change[1])]

\* Transaction::delete_char
tx_delete_char(chs, pos, ch) == delete_impl(chs, pos, <<ch>>)

\* Transaction::delete_str
delete_str(chs, pos, slice) ==
    delete_impl(chs, saturating_sub(pos, Len(slice)), Reverse(slice))

\* Transaction::merge: tx's actions replayed in order through insert_str,
\* delete_str and shift
RECURSIVE merge(_, _)
merge(chs, tx) ==
    IF tx = <<>> THEN chs
    ELSE LET c == Head(tx)
             replayed == CASE c.kind = "Insert" -> insert_str(chs, c.pos, c.content)
                           [] c.kind = "Delete" -> delete_str(chs, c.pos, c.content)
                           [] OTHER -> shift(chs, c.pos)
         IN merge(replayed, Tail(tx))

-----------------------------------------------------------------------------
(* A Transaction is built call by call against a rope, applied, and undone *)

TxAlphabet == {"a", "b"}
Ropes == SeqsUpTo(TxAlphabet, MaxRope)
Strs == SeqsUpTo(TxAlphabet, MaxStr)

\* the same edit made on the rope itself at the moment of the call;
\* None once an edit was out of range
direct_insert(d, pos, s) ==
    IF d # None /\ pos <= Len(d[1]) THEN Some(rope_insert(d[1], pos, s)) ELSE None

direct_remove(d, start, end) ==
    IF d # None /\ 0 <= start /\ start <= end /\ end <= Len(d[1])
    THEN Some(rope_remove(d[1], start, end)) ELSE None

\* the text of d in start..end (exclusive) is s
TextAt(d, start, s) ==
    /\ d # None /\ 0 <= start /\ start + Len(s) <= Len(d[1])
    /\ SubSeq(d[1], start + 1, start + Len(s)) = s

\* the size bounds of the model
WithinBounds(chs) ==
    /\ Len(chs) <= MaxActions
    /\ \A i \in 1..Len(chs) : chs[i].kind # "Move" => Len(chs[i].content) <= MaxContent

InitTx ==
    /\ rope \in Ropes
    /\ changes = new
    /\ direct = Some(rope)
    /\ wf = TRUE
    /\ run = [k |-> 0]
    /\ phase = "build"
    /\ text = rope
    /\ op = NoOp
    /\ buffer = NewBuffer(<<>>)
    /\ EditorIdle
    /\ app = AppIdle

edVars == <<buffer, current_node, should_exit, aborted, dispatch>>

\* an insert call continues the last Insert action right after its content
ContinuesInsert(chs, pos) ==
    last_as_insert(chs) # None => pos = Last(chs).pos + Len(Last(chs).content)

\* direct stops being tracked (None) once a call was not faithful
Track(ok, d) == IF ok THEN d ELSE None

InsertChar(pos, ch) ==
    /\ phase = "build"
    /\ changes' = tx_insert_char(changes, pos, ch)
    /\ WithinBounds(changes')
    /\ LET d == direct_insert(direct, pos, <<ch>>)
           ok == wf /\ d # None /\ ContinuesInsert(changes, pos)
       IN wf' = ok /\ direct' = Track(ok, d)
    /\ run' = [k |-> 0]
    /\ UNCHANGED <<rope, phase, text, op, edVars, app>>

InsertStr(pos, slice) ==
    /\ phase = "build"
    /\ changes' = insert_str(changes, pos, slice)
    /\ WithinBounds(changes')
    /\ LET d == direct_insert(direct, pos, slice)
           ok == wf /\ d # None /\ ContinuesInsert(changes, pos)
       IN wf' = ok /\ direct' = Track(ok, d)
    /\ run' = [k |-> 0]
    /\ UNCHANGED <<rope, phase, text, op, edVars, app>>

DeleteChar(pos, ch) ==
    /\ phase = "build"
    /\ changes' = tx_delete_char(changes, pos, ch)
    /\ WithinBounds(changes')
    /\ LET d == direct_remove(direct, pos, pos + 1)
           ok == /\ wf
                 /\ TextAt(direct, pos, <<ch>>)
                 /\ last_as_delete(changes) # None => pos = Last(changes).pos - 1
       IN /\ wf' = ok
          /\ direct' = Track(ok, d)
          /\ run' = IF ~ok THEN [k |-> 0]
                    ELSE IF last_as_delete(changes) = None
                         THEN [k |-> 1, p |-> pos, base |-> direct[1], at |-> Len(changes) + 1]
                    ELSE IF run.k > 0 /\ pos = run.p - run.k
                         THEN [run EXCEPT !.k = run.k + 1]
                    ELSE [k |-> 0]
    /\ UNCHANGED <<rope, phase, text, op, edVars, app>>

\* delete_str names the slice that ends at pos
DeleteStr(pos, slice) ==
    /\ phase = "build"
    /\ changes' = delete_str(changes, pos, slice)
    /\ WithinBounds(changes')
    /\ LET d == direct_remove(direct, pos - Len(slice), pos)
           ok == /\ wf
                 /\ TextAt(direct, pos - Len(slice), slice)
                 /\ last_as_delete(changes) # None => pos = Last(changes).pos
       IN wf' = ok /\ direct' = Track(ok, d)
    /\ run' = [k |-> 0]
    /\ UNCHANGED <<rope, phase, text, op, edVars, app>>

Shift(pos) ==
    /\ phase = "build"
    /\ changes' = shift(changes, pos)
    /\ WithinBounds(changes')
    /\ run' = [k |-> 0]
    /\ UNCHANGED <<rope, direct, wf, phase, text, op, edVars, app>>

\* the transactions handed to merge: built by one call, or by a shift and a
\* one-character call in either order
OneCall ==
    {insert_str(new, pos, slice) : pos \in 0..MaxPos, slice \in Strs}
      \cup {delete_str(new, pos, slice) : pos \in 0..MaxPos, slice \in Strs}
      \cup {tx_delete_char(new, pos, ch) : pos \in 0..MaxPos, ch \in TxAlphabet}
      \cup {shift(new, pos) : pos \in 0..MaxPos}

TwoCalls ==
    {shift(tx_insert_char(new, pos, ch), pos) : pos \in 0..MaxPos, ch \in TxAlphabet}
      \cup {shift(tx_delete_char(new, pos, ch), pos) : pos \in 0..MaxPos, ch \in TxAlphabet}
      \cup {tx_insert_char(shift(new, pos), pos, ch) : pos \in 0..MaxPos, ch \in TxAlphabet}
      \cup {tx_delete_char(shift(new, pos), pos, ch) : pos \in 0..MaxPos, ch \in TxAlphabet}

Others == {new} \cup OneCall \cup TwoCalls

\* self.merge(tx)
Merge(tx) ==
    /\ phase = "build"
    /\ changes' = merge(changes, tx)
    /\ WithinBounds(changes')
    /\ wf' = FALSE /\ direct' = None
    /\ run' = [k |-> 0, call |-> "merge"]
    /\ UNCHANGED <<rope, phase, text, op, edVars, app>>

\* the Transaction is replaced by self.inverse() and built further
Invert ==
    /\ phase = "build"
    /\ changes' = inverse(changes)
    /\ wf' = FALSE /\ direct' = None
    /\ run' = [k |-> 0, call |-> "inverse"]
    /\ UNCHANGED <<rope, phase, text, op, edVars, app>>

\* tx.apply(&mut text)
Apply ==
    /\ phase = "build"
    /\ LET r == apply(changes, text)
       IN /\ text' = r.text
          /\ phase' = IF r.ok THEN "applied" ELSE "panicked"
          /\ op' = [name |-> "apply", last_pos |-> r.last_pos]
    /\ UNCHANGED <<rope, changes, direct, wf, run, edVars, app>>

\* tx.inverse().apply(&mut text)
ApplyInverse ==
    /\ phase = "applied"
    /\ LET r == apply(inverse(changes), text)
       IN /\ text' = r.text
          /\ phase' = IF r.ok THEN "undone" ELSE "panicked"
          /\ op' = [name |-> "inverse", last_pos |-> r.last_pos]
    /\ UNCHANGED <<rope, changes, direct, wf, run, edVars, app>>

\* tx.inverse().inverse().apply(&mut text), after the undo
ApplyRedo ==
    /\ phase = "undone"
    /\ LET r == apply(inverse(inverse(changes)), text)
       IN /\ text' = r.text
          /\ phase' = IF r.ok THEN "redone" ELSE "panicked"
          /\ op' = [name |-> "redo", last_pos |-> r.last_pos]
    /\ UNCHANGED <<rope, changes, direct, wf, run, edVars, app>>

NextTx ==
    \/ \E pos \in 0..MaxPos, ch \in TxAlphabet : InsertChar(pos, ch)
    \/ \E pos \in 0..MaxPos, slice \in Strs : InsertStr(pos, slice)
    \/ \E pos \in 0..MaxPos, ch \in TxAlphabet : DeleteChar(pos, ch)
    \/ \E pos \in 0..MaxPos, slice \in Strs : DeleteStr(pos, slice)
    \/ \E pos \in 0..MaxPos : Shift(pos)
    \/ \E tx \in Others : Merge(tx)
    \/ Invert
    \/ Apply
    \/ ApplyInverse
    \/ ApplyRedo

SpecTx == InitTx /\ [][NextTx]_vars

-----------------------------------------------------------------------------
(* Properties of the Transaction engine, checked under SpecTx *)

\* every Delete action of chs holds, in reverse order, the text it removes
\* when chs is applied to t
RECURSIVE DeletesMatchFrom(_, _, _)
DeletesMatchFrom(chs, i, t) ==
    IF i > Len(chs) THEN TRUE
    ELSE LET c == chs[i]
         IN CASE c.kind = "Insert" ->
                   c.pos <= Len(t) /\ DeletesMatchFrom(chs, i + 1, rope_insert(t, c.pos, c.content))
              [] c.kind = "Delete" ->
                   /\ c.pos + Len(c.content) <= Len(t)
                   /\ SubSeq(t, c.pos + 1, c.pos + Len(c.content)) = Reverse(c.content)
                   /\ DeletesMatchFrom(chs, i + 1, rope_remove(t, c.pos, c.pos + Len(c.content)))
              [] OTHER -> DeletesMatchFrom(chs, i + 1, t)

DeletesMatch(chs, t) == DeletesMatchFrom(chs, 1, t)

\* C1 as stated: whatever calls built T, applying T and then T.inverse() to a
\* rope R on which T can be applied gives R back.
C1_UndoRoundTrip_AnyCalls == phase = "undone" => text = rope

\* C1 (amended): if every Delete action of T holds, reversed, exactly the text
\* it removes when T is applied to R, then T.inverse() can be applied to the
\* result and gives R back.
C1_UndoRoundTrip ==
    (op.name = "inverse" /\ DeletesMatch(changes, rope)) => (phase = "undone" /\ text = rope)

\* T deleted two different characters and inserted text, and was undone
C1_Witness ==
    /\ phase = "undone" /\ DeletesMatch(changes, rope)
    /\ Len(changes) = 2
    /\ changes[1].kind = "Delete" /\ Len(changes[1].content) = 2
    /\ changes[1].content[1] # changes[1].content[2]
    /\ changes[2].kind = "Insert" /\ Len(changes[2].content) > 0

\* the transactions of tests::test_transaction
Str_test == <<"t", "e", "s", "t">>
Str_te_te == <<"t", "e", " ", "t", "e">>

TestTx1 ==
    tx_insert_char(tx_insert_char(tx_insert_char(tx_insert_char(new, 0, "t"), 1, "e"), 2, "s"), 3, "t")

TestTx2 ==
    LET t1 == tx_delete_char(new, 3, "t")
        t2 == tx_delete_char(t1, 2, "s")
        t3 == shift(t2, 1)
        t4 == shift(t3, 0)
        t5 == tx_insert_char(t4, 0, " ")
        t6 == shift(t5, 0)
        t7 == tx_insert_char(t6, 0, "t")
    IN tx_insert_char(t7, 1, "e")

\* C2: a Transaction built by calls that each continue the previous one (an
\* insert right after the last insert, a delete one position left of the last
\* delete and naming the text there) applies to the rope as the edits made
\* directly at the moment of each call; the test's transactions give "test"
\* and then "te te".
C2_ApplyEqualsDirect ==
    /\ (wf /\ phase = "applied") => Some(text) = direct
    /\ wf => phase # "panicked"
    /\ apply(TestTx1, <<>>).text = Str_test
    /\ apply(TestTx2, Str_test).text = Str_te_te

\* a faithful two-character delete followed by an insert was applied
C2_Witness ==
    /\ wf /\ phase = "applied"
    /\ Len(changes) = 2
    /\ changes[1].kind = "Delete" /\ Len(changes[1].content) = 2
    /\ changes[2].kind = "Insert" /\ Len(changes[2].content) = 2
    /\ text # rope

\* what an insert call of s at pos does to the actions
InsertRule(pos, s) ==
    IF changes # <<>> /\ Last(changes).kind = "Insert"
    THEN /\ Len(changes') = Len(changes)
         /\ SubSeq(changes', 1, Len(changes) - 1) = SubSeq(changes, 1, Len(changes) - 1)
         /\ Last(changes').kind = "Insert"
         /\ Last(changes').pos = Last(changes).pos
         /\ Last(changes').content = Last(changes).content \o s
    ELSE changes' = Append(changes, [kind |-> "Insert", content |-> s, pos |-> pos])

\* C3: an insert call appends its text to the last action, keeping the number
\* of actions and that action's pos, exactly when the last action is an
\* Insert; otherwise it appends one new Insert with the text and the pos.
\* 'a','b','c' at 0,1,2 give the single action Insert "abc" at 0.
C3_InsertCoalescing ==
    [][/\ \A pos \in 0..MaxPos, slice \in Strs : InsertStr(pos, slice) => InsertRule(pos, slice)
       /\ \A pos \in 0..MaxPos, ch \in TxAlphabet : InsertChar(pos, ch) => InsertRule(pos, <<ch>>)
       /\ tx_insert_char(tx_insert_char(tx_insert_char(new, 0, "a"), 1, "b"), 2, "c")
            = <<[kind |-> "Insert", content |-> <<"a", "b", "c">>, pos |-> 0]>>
      ]_vars

\* an insert call was coalesced into an Insert that follows another action
C3_Witness ==
    /\ phase = "build" /\ Len(changes) = 2
    /\ changes[1].kind # "Insert"
    /\ changes[2].kind = "Insert" /\ Len(changes[2].content) = 2
    /\ changes[2].pos > 0

\* C4: a run of k delete_char calls at p, p-1, ..., p-k+1, each naming the
\* character there, leaves one Delete action at pos p-k+1 whose content is the
\* deleted text reversed; applying it removes exactly [p-k+1, p+1).  Deleting
\* at 3 then 2 over "test" leaves "te", the content read forwards is "st".
C4_DeleteCoalescing ==
    /\ run.k > 0 =>
          LET lo == run.p - run.k + 1
              a == Last(changes)
          IN /\ Len(changes) = run.at
             /\ a = [kind |-> "Delete",
                     content |-> Reverse(SubSeq(run.base, lo + 1, run.p + 1)),
                     pos |-> lo]
             /\ apply(<<a>>, run.base).text = rope_remove(run.base, lo, run.p + 1)
    /\ LET tx == tx_delete_char(tx_delete_char(new, 3, "t"), 2, "s")
       IN /\ Len(tx) = 1 /\ tx[1].kind = "Delete" /\ tx[1].pos = 2
          /\ Reverse(tx[1].content) = <<"s", "t">>
          /\ apply(tx, Str_test).text = <<"t", "e">>

\* two delete_char calls removed two different characters, after another action
C4_Witness ==
    /\ run.k = 2 /\ Len(changes) = 2
    /\ run.base[run.p] # run.base[run.p + 1]
    /\ Last(changes).pos = run.p - 1

\* no two adjacent actions of chs are of the same kind
NoAdjacentSameKind(chs) == \A i \in 1..Len(chs) - 1 : chs[i].kind # chs[i + 1].kind

\* from chs to after, a call of the given kind changed the last action only if
\* that action is of the call's kind, and otherwise appended one action of its
\* kind; every earlier action is as it was
ExtendsOwnKind(chs, after, kind) ==
    IF chs # <<>> /\ Last(chs).kind = kind
    THEN /\ Len(after) = Len(chs)
         /\ SubSeq(after, 1, Len(chs) - 1) = SubSeq(chs, 1, Len(chs) - 1)
         /\ Last(after).kind = kind
    ELSE /\ Len(after) = Len(chs) + 1
         /\ SubSeq(after, 1, Len(chs)) = chs
         /\ Last(after).kind = kind

\* every call that merge(chs, tx) replays extends only an action of its kind
RECURSIVE MergeExtendsOwnKind(_, _)
MergeExtendsOwnKind(chs, tx) ==
    IF tx = <<>> THEN TRUE
    ELSE LET after == merge(chs, <<Head(tx)>>)
         IN ExtendsOwnKind(chs, after, Head(tx).kind) /\ MergeExtendsOwnKind(after, Tail(tx))

\* C14: a Transaction built from new() by insert_char, insert_str, delete_char,
\* delete_str, shift, merge and inverse never holds two adjacent actions of the
\* same kind, and a call changes an existing action only if it is the last one
\* and of the call's own kind.
C14_CoalescingInvariant ==
    /\ []NoAdjacentSameKind(changes)
    /\ [][/\ \A pos \in 0..MaxPos, ch \in TxAlphabet :
               /\ InsertChar(pos, ch) => ExtendsOwnKind(changes, changes', "Insert")
               /\ DeleteChar(pos, ch) => ExtendsOwnKind(changes, changes', "Delete")
          /\ \A pos \in 0..MaxPos, slice \in Strs :
               /\ InsertStr(pos, slice) => ExtendsOwnKind(changes, changes', "Insert")
               /\ DeleteStr(pos, slice) => ExtendsOwnKind(changes, changes', "Delete")
          /\ \A pos \in 0..MaxPos : Shift(pos) => ExtendsOwnKind(changes, changes', "Move")
          /\ \A tx \in Others : Merge(tx) => MergeExtendsOwnKind(changes, tx)
         ]_vars

\* the last call was a merge or an inverse of the Transaction
LastCall(name) == "call" \in DOMAIN run /\ run.call = name

\* a merge has just left a two-character Insert after a Delete
C14_Witness ==
    /\ phase = "build" /\ LastCall("merge")
    /\ Len(changes) >= 2
    /\ changes[1].kind = "Delete" /\ Len(changes[1].content) > 0
    /\ changes[2].kind = "Insert" /\ Len(changes[2].content) = 2
    /\ changes[2].content[1] # changes[2].content[2]

\* C15: applying T, then T.inverse(), then T.inverse().inverse() to a rope R
\* on which T can be applied gives the text that applying T alone gives.
C15_RedoAfterUndo == phase = "redone" => text = apply(changes, rope).text

\* C16: when A and then B can be applied to the rope, applying the result of
\* A.merge(B) gives the same text and the same returned position as applying
\* A and then B.
C16_MergePreservesEffect ==
    [][\A tx \in Others : Merge(tx) =>
          LET a == apply(changes, rope)
              b == apply_from(tx, 1, a.text, a.last_pos)
              merged == apply(changes', rope)
          IN (a.ok /\ b.ok) =>
                /\ merged.ok
                /\ merged.text = b.text
                /\ merged.last_pos = b.last_pos
      ]_vars

-----------------------------------------------------------------------------
(* Properties of the dispatcher, checked under Spec *)

\* the commands bound to a sequence of exactly two keys
TwoKeyBindings ==
    {[k1 |-> k1, k2 |-> k2, cmd |-> Keymap[k1].next[k2].cmd] :
        <<k1, k2>> \in {kk \in Events \X Events :
                          /\ kk[1] \in DOMAIN Keymap /\ Keymap[kk[1]].type = "Node"
                          /\ kk[2] \in DOMAIN Keymap[kk[1]].next
                          /\ Keymap[kk[1]].next[kk[2]].type = "Leaf"}}

\* C5: a command bound to (k1, k2) is executed during a dispatch if and only
\* if that input is k2 and the preceding input was k1, received while Idle.
C5_TwoKeyResolution ==
    [][\A input \in Inputs : Execute(input) =>
          \A b \in TwoKeyBindings :
             (dispatch'.cmd = b.cmd)
                <=> (dispatch'.key = b.k2 /\ dispatch.key = b.k1 /\ dispatch.idle)
      ]_vars

\* the keys a pending node maps
Children(node) == IF node.type = "Node" THEN DOMAIN node.next ELSE {}

\* C6: when a node is pending and the input is not among its children, the
\* dispatch executes no command, leaves buffer and exit flag unchanged and
\* leaves the dispatcher Idle.
C6_CancellationNoSideEffect ==
    [][\A input \in Inputs : Execute(input) =>
          ((current_node # None /\ input.event \notin Children(current_node[1]))
             => /\ dispatch'.cmd = "None"
                /\ buffer' = buffer
                /\ should_exit' = should_exit
                /\ current_node' = None)
      ]_vars

\* C12: while a Node is pending, an input that the Node's children map to a
\* Leaf runs the Leaf's command in that same dispatch and leaves the dispatcher
\* Idle; after every dispatch that runs a command no node is pending.
C12_PendingResolvesToLeaf ==
    [][\A input \in Inputs : Execute(input) =>
          /\ (/\ current_node # None
              /\ current_node[1].type = "Node"
              /\ input.event \in DOMAIN current_node[1].next
              /\ current_node[1].next[input.event].type = "Leaf")
                => /\ dispatch'.cmd = current_node[1].next[input.event].cmd
                   /\ current_node' = None
          /\ (dispatch'.cmd # "None" => current_node' = None)
      ]_vars

\* the keys the root trie maps to a Node
PrefixKeys == {k \in DOMAIN Keymap : Keymap[k].type = "Node"}

\* C13: while Idle, an input the root trie maps to a Node makes exactly that
\* Node pending, runs no command and leaves the buffer unchanged; what is
\* pending changes only in a dispatch call.
C13_EnteringPending ==
    [][/\ \A input \in Inputs : Execute(input) =>
             ((current_node = None /\ input.event \in PrefixKeys)
                => /\ current_node' = Some(Keymap[input.event])
                   /\ dispatch'.cmd = "None"
                   /\ buffer' = buffer)
       /\ (\E input \in InsertInputs : InsertModeOnInput(input))
             => current_node' = current_node
      ]_vars

\* C21: insert_mode_on_input changes the buffer only for a character with
\* neither ctrl nor alt: the character goes in at the cursor's absolute
\* position and byte_offset grows by one, everything else stays. Ctrl+q
\* without alt sets the exit flag and nothing else; any other input changes
\* nothing. No input ever clears the exit flag.
C21_InsertModeStream ==
    [][/\ \A input \in InsertInputs : InsertModeOnInput(input) =>
             /\ current_node' = current_node
             /\ IF input.event \in Chars /\ ~input.ctrl /\ ~input.alt
                THEN /\ buffer'.text
                          = SubSeq(buffer.text, 1, as_byte_pos(buffer)) \o <<input.event>>
                              \o SubSeq(buffer.text, as_byte_pos(buffer) + 1, Len(buffer.text))
                     /\ buffer'.offset = buffer.offset + 1
                     /\ buffer'.index = buffer.index
                     /\ buffer'.mode = buffer.mode
                     /\ buffer'.vscroll = buffer.vscroll
                     /\ should_exit' = should_exit
                ELSE IF input.event = "q" /\ input.ctrl /\ ~input.alt
                THEN should_exit' = TRUE /\ buffer' = buffer
                ELSE should_exit' = should_exit /\ buffer' = buffer
       /\ should_exit => should_exit'
      ]_vars

\* a plain q was typed, Ctrl+q set the exit flag, and a later Esc left it set
C21_Witness ==
    /\ should_exit
    /\ \E i \in 1..Len(buffer.text) : buffer.text[i] = "q"
    /\ buffer.mode = "Normal"
    /\ dispatch.key = "Esc"

\* the plain subtractions of cursor_line_bounds and delete_char on b do not go
\* below zero
PlainSubtractionsOk(b) ==
    /\ len_lines(b.text) - 1 >= 0
    /\ b.index < len_lines(b.text) - 1 => len_bytes(b.text, b.index) - 1 >= 0
    /\ as_byte_pos(b) # 0 => as_byte_pos(b) - 1 >= 0

\* C22: on a buffer satisfying the cursor invariant, a dispatch that runs a
\* command, whichever CommandType the Leaf carries, completes: it reaches no
\* unimplemented placeholder and no subtraction goes below zero.
C22_NoRuntimeFailure ==
    [][\A input \in Inputs : Execute(input) =>
          ((CursorValid(buffer) /\ dispatch'.cmd \in CommandTypes)
             => /\ ~aborted'
                /\ PlainSubtractionsOk(buffer)
                /\ PlainSubtractionsOk(buffer'))
      ]_vars

\* C8: line_index is less than the number of lines and byte_offset does not
\* exceed the addressable length of the current line, after every sequence of
\* Normal-mode commands and Insert-mode inputs.
C8_CursorInvariant == CursorValid(buffer)

\* move-forward stopped at the end of an interior line's content
C8_Witness ==
    /\ dispatch.cmd = "MoveForward"
    /\ buffer.index < len_lines(buffer.text) - 1
    /\ buffer.offset > 0
    /\ buffer.offset = Addressable(buffer.text, buffer.index)

-----------------------------------------------------------------------------
(* Properties of the Buffer and the motions, checked under SpecBuf *)

\* C7: for every valid cursor (line, offset) of the text, as_curs_pos of its
\* as_byte_pos is (line, offset).
C7_CoordinateRoundTrip ==
    \A line \in 0..(len_lines(buffer.text) - 1) :
       \A offset \in 0..Addressable(buffer.text, line) :
          LET b == set_pos(buffer, <<line, offset>>)
          IN as_curs_pos(b, as_byte_pos(b)) = <<line, offset>>

\* the cursor was placed on the terminator of an interior, non-empty line
C7_Witness ==
    /\ op.name = "as_curs_pos"
    /\ buffer.index > 0 /\ buffer.index < len_lines(buffer.text) - 1
    /\ buffer.offset > 0
    /\ buffer.offset = Addressable(buffer.text, buffer.index)
    /\ as_byte_pos(buffer) = op.pos

\* C9: moving down by N sets line_index to min(line_index + N, len_lines - 1),
\* moving up by N to max(line_index - N, 0); byte_offset is then reduced to
\* the new line's addressable length whenever it exceeded it.
C9_MotionClamping ==
    [][/\ op'.name = "move_cursor_down_by" =>
             /\ buffer'.index = Min(buffer.index + op'.n, len_lines(buffer.text) - 1)
             /\ buffer'.offset = Min(buffer.offset, Addressable(buffer.text, buffer'.index))
       /\ op'.name = "move_cursor_up_by" =>
             /\ buffer'.index = Max(buffer.index - op'.n, 0)
             /\ buffer'.offset = Min(buffer.offset, Addressable(buffer.text, buffer'.index))
      ]_vars

\* C10: after update_vscroll(height), height >= 1, the cursor's line index
\* lies within [scroll_top, scroll_top + height - 1].
C10_ViewportInvariant ==
    op.name = "update_vscroll" =>
       /\ buffer.vscroll <= buffer.index
       /\ buffer.index <= buffer.vscroll + op.max - 1

\* the window was moved down to a cursor below it
C10_Witness ==
    /\ op.name = "update_vscroll" /\ op.max >= 2
    /\ buffer.vscroll > 0
    /\ buffer.index = buffer.vscroll + op.max - 1

\* the distance between two scroll-tops
Dist(a, b) == IF a < b THEN b - a ELSE a - b

\* the scroll-tops whose window of the given height shows the line
Admissible(line, max) == {s \in 0..(MaxLen + MaxScroll) : s <= line /\ line <= s + max - 1}

\* C17: update_vscroll(height) keeps scroll_top when the cursor line is in
\* [scroll_top, scroll_top + height - 1], sets it to the cursor line when the
\* cursor is above the window and to cursor line - height + 1 when it is below;
\* the result is the admissible scroll_top closest to the previous one, and a
\* second call changes nothing.
C17_MinimalViewportShift ==
    [][\A max \in 1..MaxHeight : UpdateVscroll(max) =>
          LET top == buffer.vscroll
              line == buffer.index
              after == buffer'.vscroll
          IN /\ (top <= line /\ line <= top + max - 1) => after = top
             /\ line < top => after = line
             /\ line > top + max - 1 => after = line - max + 1
             /\ after \in Admissible(line, max)
             /\ \A s \in Admissible(line, max) : Dist(after, top) <= Dist(s, top)
             /\ update_vscroll(buffer', max) = buffer'
      ]_vars

\* the window was moved up to a cursor above it
C17_Witness ==
    /\ op.name = "update_vscroll" /\ op.max >= 2
    /\ op.from > buffer.vscroll
    /\ buffer.vscroll = buffer.index

\* C18: Command::scroll(buffer, height) and Buffer::update_vscroll(height)
\* give the same scroll-top for every previous scroll-top, cursor line and
\* height of at least 1.
C18_ScrollEqualsUpdateVscroll ==
    /\ \A max \in 1..MaxHeight :
          scroll(buffer, max).vscroll = update_vscroll(buffer, max).vscroll
    /\ op.name = "scroll" =>
          buffer.vscroll = update_vscroll([buffer EXCEPT !.vscroll = op.from], op.max).vscroll

\* scroll moved the window down to a cursor below it
C18_Witness ==
    /\ op.name = "scroll" /\ op.max >= 2
    /\ op.from < buffer.vscroll
    /\ buffer.index = buffer.vscroll + op.max - 1

\* the contents of the lines of t, without their terminators
RECURSIVE Lines(_)
Lines(t) ==
    IF \A i \in 1..Len(t) : t[i] # NL THEN <<t>>
    ELSE LET p == CHOOSE p \in 1..Len(t) : t[p] = NL /\ \A q \in 1..(p - 1) : t[q] # NL
         IN <<SubSeq(t, 1, p - 1)>> \o Lines(SubSeq(t, p + 1, Len(t)))

\* ls with the line x put in after its first k lines
InsertLine(ls, k, x) == SubSeq(ls, 1, k) \o <<x>> \o SubSeq(ls, k + 1, Len(ls))

\* C19: with the cursor on line L, open-line-below adds one empty line right
\* after line L and leaves the cursor at (L+1, 0); open-line-above adds one
\* empty line right before line L and leaves the cursor at (L, 0), for L = 0
\* too. Every other line keeps its content and place, the line count grows by
\* one and the mode becomes Insert.
C19_OpenLine ==
    [][/\ ToInsertNewLineNext =>
             /\ Lines(buffer'.text) = InsertLine(Lines(buffer.text), buffer.index + 1, <<>>)
             /\ len_lines(buffer'.text) = len_lines(buffer.text) + 1
             /\ buffer'.index = buffer.index + 1 /\ buffer'.offset = 0
             /\ buffer'.mode = "Insert"
       /\ ToInsertNewLinePrev =>
             /\ Lines(buffer'.text) = InsertLine(Lines(buffer.text), buffer.index, <<>>)
             /\ len_lines(buffer'.text) = len_lines(buffer.text) + 1
             /\ buffer'.index = buffer.index /\ buffer'.offset = 0
             /\ buffer'.mode = "Insert"
      ]_vars

\* a line was opened above the first line, pushing its text down
C19_Witness ==
    /\ op.name = "to_insert_new_line_prev" /\ op.index = 0
    /\ buffer.index = 0 /\ buffer.mode = "Insert"
    /\ Len(Lines(buffer.text)) >= 2
    /\ Lines(buffer.text)[1] = <<>> /\ Lines(buffer.text)[2] # <<>>

\* C20: delete-char changes nothing at absolute position 0; at offset 0 of a
\* line L > 0 it removes the terminator of line L-1, joining the two lines,
\* and leaves the cursor at (L-1, former content length of line L-1);
\* otherwise it removes the character left of the cursor, decreases
\* byte_offset by one and keeps line_index.
C20_DeleteChar ==
    [][DeleteCharCmd =>
          LET t == buffer.text
              L == buffer.index
              ls == Lines(t)
              pos == as_byte_pos(buffer)
          IN /\ pos = 0 => buffer' = buffer
             /\ (buffer.offset = 0 /\ L > 0) =>
                   /\ t[pos] = NL
                   /\ buffer'.text = rope_remove(t, pos - 1, pos)
                   /\ Lines(buffer'.text)
                        = SubSeq(ls, 1, L - 1) \o <<ls[L] \o ls[L + 1]>> \o SubSeq(ls, L + 2, Len(ls))
                   /\ buffer'.index = L - 1
                   /\ buffer'.offset = Len(ls[L])
             /\ buffer.offset > 0 =>
                   /\ buffer'.text = rope_remove(t, pos - 1, pos)
                   /\ Lines(buffer'.text)
                        = [ls EXCEPT ![L + 1] = SubSeq(@, 1, buffer.offset - 1)
                                                  \o SubSeq(@, buffer.offset + 1, Len(@))]
                   /\ buffer'.index = L
                   /\ buffer'.offset = buffer.offset - 1
             /\ buffer'.mode = buffer.mode /\ buffer'.vscroll = buffer.vscroll
      ]_vars

\* a line was joined onto the non-empty line before it
C20_Witness ==
    /\ op.name = "delete_char" /\ op.offset = 0 /\ op.index > 0
    /\ buffer.index = op.index - 1
    /\ buffer.offset > 0
    /\ len_lines(buffer.text) >= 1

-----------------------------------------------------------------------------
(* App::new (duzzy/src/app.rs) *)

\* what the terminal does: Terminal::new(..).expect, terminal.size()?,
\* enable_raw_mode().expect / execute!(..).expect
Envs == {"ok", "new_panic", "size_err", "raw_panic"}

\* a path argument is given by the outcome of editor.open_file on it
Outcomes == {"ok", "err"}

\* std::env::args(): the program name and the path arguments
ArgLists == {<<"duzzy">> \o paths : paths \in SeqsUpTo(Outcomes, MaxArgs)}

\* the loop body of App::new ending the constructor on a failed open
open_arg_try(a, outcome) ==
    IF outcome = "err"
    THEN [a EXCEPT !.pc = "err", !.attempted = a.attempted + 1]
    ELSE [a EXCEPT !.opened = a.opened + 1, !.docs = a.docs + 1,
                   !.attempted = a.attempted + 1]

\* the loop body of App::new: editor.open_file(arg), counted as failed or opened
open_arg(a, outcome) ==
    IF outcome = "err"
    THEN [a EXCEPT !.failed = a.failed + 1, !.attempted = a.attempted + 1]
    ELSE [a EXCEPT !.opened = a.opened + 1, !.docs = a.docs + 1,
                   !.attempted = a.attempted + 1]

\* App::new after the loop: the scratch buffer, then raw mode
after_loop(a) ==
    LET a1 == IF a.opened = 0 THEN [a EXCEPT !.docs = a.docs + 1, !.scratch = TRUE] ELSE a
    IN [a1 EXCEPT !.pc = IF a.env = "raw_panic" THEN "panic" ELSE "ok"]

InitApp ==
    /\ app \in {[pc |-> "start", args |-> args, env |-> env, next |-> 2, attempted |-> 0,
                 opened |-> 0, failed |-> 0, docs |-> 0, scratch |-> FALSE] :
                   args \in ArgLists, env \in Envs}
    /\ buffer = NewBuffer(<<>>)
    /\ op = NoOp
    /\ EditorIdle
    /\ rope = <<>> /\ changes = <<>> /\ direct = <<>> /\ wf = TRUE
    /\ run = [k |-> 0] /\ phase = "build" /\ text = <<>>

\* Terminal::new(backend).expect("terminal"); terminal.size()?; DuzzyEditor::new
AppStart ==
    /\ app.pc = "start"
    /\ app' = [app EXCEPT !.pc = CASE app.env = "new_panic" -> "panic"
                                   [] app.env = "size_err" -> "err"
                                   [] OTHER -> "loop"]
    /\ UNCHANGED <<edVars, op, txVars>>

\* one iteration of: for arg in args.skip(1)
AppOpen ==
    /\ app.pc = "loop"
    /\ app.next <= Len(app.args)
    /\ app' = [open_arg(app, app.args[app.next]) EXCEPT !.next = app.next + 1]
    /\ UNCHANGED <<edVars, op, txVars>>

\* the loop is over: open_scratch if nothing opened, raw mode, Ok(Self)
AppFinish ==
    /\ app.pc = "loop"
    /\ app.next > Len(app.args)
    /\ app' = after_loop(app)
    /\ UNCHANGED <<edVars, op, txVars>>

NextApp == AppStart \/ AppOpen \/ AppFinish

SpecApp == InitApp /\ [][NextApp]_vars

\* the number of arguments that open successfully
RECURSIVE NumOk(_)
NumOk(paths) ==
    IF paths = <<>> THEN 0
    ELSE (IF Head(paths) = "ok" THEN 1 ELSE 0) + NumOk(Tail(paths))

\* C11: App::new attempts every argument, returns no error because of a
\* failed open, and ends with at least one open document: the scratch buffer
\* is opened if and only if no argument opened successfully.
C11_DocumentLifecycle ==
    /\ app.pc \in {"ok", "panic"} /\ app.env # "new_panic" =>
          /\ app.attempted = Len(app.args) - 1
          /\ app.scratch <=> (NumOk(Tail(app.args)) = 0)
          /\ app.docs = NumOk(Tail(app.args)) + (IF app.scratch THEN 1 ELSE 0)
          /\ app.docs >= 1
    /\ app.pc = "err" => (app.env = "size_err" /\ app.attempted = 0)
    /\ app.env = "ok" /\ app.pc # "start" => app.pc \in {"loop", "ok"}

\* every argument failed to open and the constructor returned Ok with the scratch buffer
C11_Witness ==
    /\ app.pc = "ok" /\ app.failed >= 2 /\ app.opened = 0
    /\ app.scratch /\ app.docs = 1

====
